---- MODULE Spec2Model ----
(***************************************************************************)
(* A model of annota's image asset file API                                *)
(* (annota/cli/file/asset.py, annota/cli/typing.py).                       *)
(*                                                                         *)
(* One ImageAsset (its document, its bound path, its name index) lives     *)
(* beside a storage of text files and a clock.  Every public method of     *)
(* ImageAsset is one action; the pydantic codec (model_validate_json /     *)
(* model_dump_json) is a pair of operators over a structured picture of    *)
(* the JSON text.  A second ImageAsset of the same sidecar is held in      *)
(* asset2.                                                                 *)
(*                                                                         *)
(* Specifications: Spec (every method, short runs), SpecEdit (editing in   *)
(* memory), SpecCodec (loads and dumps), SpecTwo (two assets of one        *)
(* sidecar), SpecOrder (numbered adds on a created asset), SpecPersist     *)
(* and SpecCreated (an asset edited, saved and loaded while the clock      *)
(* runs).                                                                  *)
(***************************************************************************)
EXTENDS Integers, Sequences, FiniteSets, TLC

VARIABLES
    has_asset,   \* TRUE once a classmethod has returned an ImageAsset
    doc,         \* ImageAsset._doc
    path,        \* ImageAsset.path
    name_map,    \* ImageAsset._name_map
    storage,     \* the file system: path -> text (or Absent)
    clock,       \* the value datetime.now(timezone.utc) returns
    distinct0,   \* whether the document the asset was built from had
                 \* pairwise-distinct annotation names
    nops,        \* number of API calls made so far
    last,        \* the last API call: its arguments and its outcome
    asset2       \* a second ImageAsset the caller may hold at the same time

vars ==
    <<has_asset, doc, path, name_map, distinct0, storage, clock, nops, last,
      asset2>>

(***************************************************************************)
(* Bounds of the model.                                                    *)
(***************************************************************************)
MaxClock == 2
MaxOps == 3

(***************************************************************************)
(* Program constants.                                                      *)
(***************************************************************************)
FORMAT_VERSION == 1

CLI_NAME == "CLI_NAME"
CLI_VERSION == "CLI_VERSION"

(***************************************************************************)
(* Paths.  A path is its stem and its suffix; None and the empty string    *)
(* are the two falsy values a path argument can take.                      *)
(***************************************************************************)
P(stem, ext) == [stem |-> stem, ext |-> ext]

NoPath == P("<None>", "<None>")
EmptyStr == P("", "")

AllPaths == {P(s, e) : s \in {"a", "b"}, e \in {"png", "meta"}}

\* Path(image_path).with_suffix('.meta')
with_suffix_meta(image_path) == P(image_path.stem, "meta")

(***************************************************************************)
(* Timestamps.  A datetime is an instant and its tzinfo; its ISO text is   *)
(* the instant and the offset suffix.                                      *)
(***************************************************************************)
DT(t, tz) == [t |-> t, tz |-> tz]

utc_now(now) == DT(now, "UTC")

\* pydantic's datetime serialisation: UTC prints "Z", a naive datetime
\* prints no offset, any other offset prints as it is.
datetime_to_iso(d) ==
    [t |-> d.t,
     off |-> IF d.tz = "UTC" THEN "Z" ELSE IF d.tz = "naive" THEN "" ELSE d.tz]

\* pydantic's datetime parsing: "Z" is UTC, no offset is naive.
iso_to_datetime(s) ==
    DT(s.t, IF s.off = "Z" THEN "UTC" ELSE IF s.off = "" THEN "naive" ELSE s.off)

(***************************************************************************)
(* JSON scalars where the schema asks for an int.                          *)
(***************************************************************************)
JInt(n) == [k |-> "int", n |-> n, s |-> ""]
JStr(s) == [k |-> "str", n |-> 0, s |-> s]

\* pydantic's int validation of a JSON value (lax mode): a number is
\* taken, a string is taken only when it spells an integer.
NumericStrings == {"1920"}
str_to_int(s) == IF s = "1920" THEN 1920 ELSE 0
int_ok(j) == j.k = "int" \/ (j.k = "str" /\ j.s \in NumericStrings)
int_value(j) == IF j.k = "int" THEN j.n ELSE str_to_int(j.s)

(***************************************************************************)
(* Annotation attributes.  A JSON payload is its "type" value, the keys    *)
(* of its "geometry" object (when it has one) and its other keys.          *)
(***************************************************************************)
Payload(type, has_geometry, geometry, other) ==
    [type |-> type, has_geometry |-> has_geometry,
     geometry |-> geometry, other |-> other]

RectKeys == {"x", "y", "width", "height"}
PointKeys == {"x", "y"}
Vec2Keys == {"x1", "y1", "x2", "y2"}

BuiltInAnnotationType == {"slice", "box", "point", "swipe"}

\* A discriminator that looks at the shape of the payload.
_attributes_type_by_shape(data) ==
    IF data.type \in BuiltInAnnotationType THEN data.type
    ELSE IF data.has_geometry /\ data.geometry = RectKeys THEN "box"
    ELSE IF data.has_geometry /\ data.geometry = PointKeys THEN "point"
    ELSE IF data.has_geometry /\ data.geometry = Vec2Keys THEN "swipe"
    ELSE "custom"

\* typing._attributes_type: data.get('type', None), a built-in tag or
\* 'custom'.  A payload without a "type" key has the type "<missing>".
_attributes_type(data) ==
    IF data.type \in BuiltInAnnotationType THEN data.type ELSE "custom"

\* The fields of the geometry model each built-in variant declares.
geometry_fields(tag) ==
    IF tag \in {"slice", "box"} THEN RectKeys
    ELSE IF tag = "point" THEN PointKeys
    ELSE Vec2Keys

\* A validation that only asks a built-in payload for some geometry.
attributes_ok_any_geometry(data) ==
    _attributes_type(data) = "custom" \/ data.has_geometry

\* Validation of an attributes payload against the tagged union.
attributes_ok(data) ==
    LET tag == _attributes_type(data) IN
    tag = "custom"
    \/ (data.has_geometry /\ geometry_fields(tag) \subseteq data.geometry)

\* The validated value: a built-in model keeps its declared fields only,
\* the custom variant keeps the mapping as it is.
attributes_validate(data) ==
    LET tag == _attributes_type(data) IN
    IF tag = "custom"
    THEN [variant |-> "custom", payload |-> data]
    ELSE [variant |-> tag,
          payload |-> Payload(tag, TRUE, geometry_fields(tag), {})]

attributes_dump(attributes) == attributes.payload

(***************************************************************************)
(* Annotations.                                                            *)
(***************************************************************************)
Annotation(uuid, name, attributes) ==
    [uuid |-> uuid, name |-> name, display_name |-> name,
     description |-> "<None>", attributes |-> attributes, extra |-> "<None>"]

BoxAttributes == attributes_validate(Payload("box", TRUE, RectKeys, {}))
PointAttributes == attributes_validate(Payload("point", TRUE, PointKeys, {}))
CustomAttributes == attributes_validate(Payload("unknown_tag", FALSE, {}, {"foo"}))

\* What get_annotation and remove_annotation return for "not found".
None == Annotation("<None>", "<None>", CustomAttributes)

Names == {"n1", "n2", "n3"}

\* The annotations callers pass to add_annotation.
Annotations ==
    {Annotation("u1", "n1", BoxAttributes),
     Annotation("u2", "n1", PointAttributes),
     Annotation("u3", "n2", CustomAttributes),
     Annotation("u4", "n3", BoxAttributes)}

\* A dump that leaves the caller's extra data out.
annotation_dump_without_extra(ann) ==
    [uuid |-> ann.uuid, name |-> ann.name, display_name |-> ann.display_name,
     description |-> ann.description,
     attributes |-> attributes_dump(ann.attributes), extra |-> "<None>"]

annotation_dump(ann) ==
    [uuid |-> ann.uuid, name |-> ann.name, display_name |-> ann.display_name,
     description |-> ann.description,
     attributes |-> attributes_dump(ann.attributes), extra |-> ann.extra]

annotation_ok(j) == attributes_ok(j.attributes)

annotation_validate(j) ==
    [uuid |-> j.uuid, name |-> j.name, display_name |-> j.display_name,
     description |-> j.description,
     attributes |-> attributes_validate(j.attributes), extra |-> j.extra]

(***************************************************************************)
(* Documents and their JSON text.                                          *)
(***************************************************************************)
Meta(version, tool, tool_version, created_at, updated_at) ==
    [version |-> version, tool |-> tool, tool_version |-> tool_version,
     created_at |-> created_at, updated_at |-> updated_at]

ImageFile(width, height) == [width |-> width, height |-> height]

Document(type, meta, file, annotations) ==
    [type |-> type, meta |-> meta, file |-> file, annotations |-> annotations]

NoDoc ==
    Document("<None>", Meta(0, "", "", DT(0, "naive"), DT(0, "naive")),
             ImageFile(0, 0), <<>>)

\* The JSON object model_dump_json writes for a document.
document_dump(d) ==
    [type |-> d.type,
     meta |-> [version |-> d.meta.version, tool |-> d.meta.tool,
               tool_version |-> d.meta.tool_version,
               created_at |-> datetime_to_iso(d.meta.created_at),
               updated_at |-> datetime_to_iso(d.meta.updated_at)],
     file |-> [width |-> JInt(d.file.width), height |-> JInt(d.file.height)],
     annotations |-> [i \in DOMAIN d.annotations |->
                         annotation_dump(d.annotations[i])]]

NoBody == document_dump(NoDoc)

\* A text is absent (no file), not well-formed JSON, or a JSON object
\* printed with some indent.
Absent == [kind |-> "absent", indent |-> 0, body |-> NoBody]
Malformed == [kind |-> "malformed", indent |-> 0, body |-> NoBody]
JsonText(indent, body) == [kind |-> "json", indent |-> indent, body |-> body]

\* Document.model_dump_json(indent=indent)
model_dump_json(d, indent) == JsonText(indent, document_dump(d))

\* Schema validation of a parsed JSON object against Document.
document_ok(b) ==
    /\ int_ok(b.file.width)
    /\ int_ok(b.file.height)
    /\ \A i \in DOMAIN b.annotations : annotation_ok(b.annotations[i])

document_validate(b) ==
    Document(b.type,
             Meta(b.meta.version, b.meta.tool, b.meta.tool_version,
                  iso_to_datetime(b.meta.created_at),
                  iso_to_datetime(b.meta.updated_at)),
             ImageFile(int_value(b.file.width), int_value(b.file.height)),
             [i \in DOMAIN b.annotations |->
                 annotation_validate(b.annotations[i])])

\* Document.model_validate_json(text): pydantic reports malformed JSON
\* (json_invalid) and schema violations alike as a ValidationError.
model_validate_json(text) ==
    IF text.kind # "json"
    THEN [ok |-> FALSE, error |-> "ValidationError", cause |-> "json_invalid",
          doc |-> NoDoc]
    ELSE IF ~document_ok(text.body)
    THEN [ok |-> FALSE, error |-> "ValidationError", cause |-> "schema",
          doc |-> NoDoc]
    ELSE [ok |-> TRUE, error |-> "", cause |-> "",
          doc |-> document_validate(text.body)]

(***************************************************************************)
(* The texts a caller or the file system can hold before the API runs.     *)
(***************************************************************************)
InitMeta == Meta(FORMAT_VERSION, CLI_NAME, CLI_VERSION, utc_now(0), utc_now(0))

\* ... "file": {"width": "not-a-number", ...} ...
BadWidthText ==
    JsonText(2, [document_dump(Document("image", InitMeta, ImageFile(1920, 1080), <<>>))
                    EXCEPT !.file.width = JStr("not-a-number")])

\* one annotation
OneText ==
    model_dump_json(
        Document("image", InitMeta, ImageFile(1920, 1080),
                 <<Annotation("u1", "n1", BoxAttributes)>>), 2)

\* two annotations of the same name and different content
DupText ==
    model_dump_json(
        Document("image", InitMeta, ImageFile(1920, 1080),
                 <<Annotation("u1", "n1", BoxAttributes),
                   Annotation("u2", "n1", PointAttributes)>>), 2)

\* the same annotation listed twice
TwiceText ==
    model_dump_json(
        Document("image", InitMeta, ImageFile(1920, 1080),
                 <<Annotation("u1", "n1", BoxAttributes),
                   Annotation("u1", "n1", BoxAttributes)>>), 2)

InitTexts == {Malformed, BadWidthText, OneText, DupText, TwiceText}

(***************************************************************************)
(* Python's list and dict operations as the asset uses them.               *)
(***************************************************************************)
list_contains(s, x) == \E i \in DOMAIN s : s[i] = x

\* list.index: the first position holding a value equal to x
list_index(s, x) ==
    CHOOSE i \in DOMAIN s : s[i] = x /\ \A j \in 1..(i - 1) : s[j] # x

\* list.remove(x), x in the list: drops the first element equal to x
list_remove(s, x) ==
    LET i == list_index(s, x) IN SubSeq(s, 1, i - 1) \o SubSeq(s, i + 1, Len(s))

dict_pop(map, key) == [k \in DOMAIN map \ {key} |-> map[k]]

dict_set(map, key, value) ==
    [k \in DOMAIN map \cup {key} |-> IF k = key THEN value ELSE map[k]]

\* dict.get(key), None when the key is missing
dict_get(map, key) == IF key \in DOMAIN map THEN map[key] ELSE None

(***************************************************************************)
(* ImageAsset: the instance.                                               *)
(***************************************************************************)
\* { ann.name: ann for ann in self._doc.annotations }: a later entry of
\* the same name replaces an earlier one.
init_name_map(annotations) ==
    [n \in {annotations[i].name : i \in DOMAIN annotations} |->
        annotations[CHOOSE i \in DOMAIN annotations :
                        /\ annotations[i].name = n
                        /\ \A j \in DOMAIN annotations :
                              annotations[j].name = n => j <= i]]

\* ImageAsset.__init__(document, source_path)
ImageAsset(document, source_path) ==
    [doc |-> document, path |-> source_path,
     name_map |-> init_name_map(document.annotations)]

NoAsset == ImageAsset(NoDoc, NoPath)

get_annotation(map, name) == dict_get(map, name)

contains(map, name) == name \in DOMAIN map

\* remove_annotation that pops the index and leaves the list alone
remove_annotation_index_only(annotations, map, name) ==
    IF name \notin DOMAIN map
    THEN [annotations |-> annotations, name_map |-> map,
          ret |-> None, error |-> ""]
    ELSE [annotations |-> annotations, name_map |-> dict_pop(map, name),
          ret |-> map[name], error |-> ""]

\* ImageAsset.remove_annotation(name): the annotations and the index
\* after the call, what it returns, and the exception it ends with.
remove_annotation(annotations, map, name) ==
    IF name \notin DOMAIN map
    THEN [annotations |-> annotations, name_map |-> map,
          ret |-> None, error |-> ""]
    ELSE LET ann_to_remove == map[name]
             popped == dict_pop(map, name)
         IN  IF list_contains(annotations, ann_to_remove)
             THEN [annotations |-> list_remove(annotations, ann_to_remove),
                   name_map |-> popped, ret |-> ann_to_remove, error |-> ""]
             ELSE [annotations |-> annotations, name_map |-> popped,
                   ret |-> None, error |-> "ValueError: x not in list"]

\* add_annotation whose overwrite forgets to remove the old entry
add_annotation_keep_old(annotations, map, annotation, overwrite) ==
    IF annotation.name \in DOMAIN map /\ ~overwrite
    THEN [annotations |-> annotations, name_map |-> map,
          error |-> "ValueError: already exists"]
    ELSE [annotations |-> Append(annotations, annotation),
          name_map |-> dict_set(map, annotation.name, annotation),
          error |-> ""]

\* add_annotation that appends before it looks the name up
add_annotation_append_first(annotations, map, annotation, overwrite) ==
    IF annotation.name \in DOMAIN map /\ ~overwrite
    THEN [annotations |-> Append(annotations, annotation), name_map |-> map,
          error |-> "ValueError: already exists"]
    ELSE [annotations |-> Append(annotations, annotation),
          name_map |-> dict_set(map, annotation.name, annotation),
          error |-> ""]

\* add_annotation that overwrites an entry where it stands
add_annotation_in_place(annotations, map, annotation, overwrite) ==
    IF annotation.name \in DOMAIN map /\ ~overwrite
    THEN [annotations |-> annotations, name_map |-> map,
          error |-> "ValueError: already exists"]
    ELSE IF annotation.name \in DOMAIN map
    THEN [annotations |->
             [i \in DOMAIN annotations |->
                 IF annotations[i].name = annotation.name
                 THEN annotation ELSE annotations[i]],
          name_map |-> dict_set(map, annotation.name, annotation),
          error |-> ""]
    ELSE [annotations |-> Append(annotations, annotation),
          name_map |-> dict_set(map, annotation.name, annotation),
          error |-> ""]

\* ImageAsset.add_annotation(annotation, overwrite)
add_annotation(annotations, map, annotation, overwrite) ==
    LET present == annotation.name \in DOMAIN map
        removed == IF present /\ overwrite
                   THEN remove_annotation(annotations, map, annotation.name)
                   ELSE [annotations |-> annotations, name_map |-> map,
                         ret |-> None, error |-> ""]
    IN  IF present /\ ~overwrite
        THEN [annotations |-> annotations, name_map |-> map,
              error |-> "ValueError: already exists"]
        ELSE IF removed.error # ""
        THEN [annotations |-> removed.annotations,
              name_map |-> removed.name_map, error |-> removed.error]
        ELSE [annotations |-> Append(removed.annotations, annotation),
              name_map |-> dict_set(removed.name_map, annotation.name, annotation),
              error |-> ""]

\* ImageAsset.__len__ and ImageAsset.__iter__ (what iteration yields)
__len__(annotations) == Len(annotations)
__iter__(annotations) == annotations

\* dumps that refreshes updated_at whatever update_timestamp says
dumps_always_refresh(document, update_timestamp, indent, now) ==
    LET d == [document EXCEPT !.meta.updated_at = utc_now(now)]
    IN  [doc |-> d, text |-> model_dump_json(d, indent)]

\* ImageAsset.dumps(update_timestamp, indent) at clock value now: the
\* document after the call and the text returned.
dumps(document, update_timestamp, indent, now) ==
    LET d == IF update_timestamp
             THEN [document EXCEPT !.meta.updated_at = utc_now(now)]
             ELSE document
    IN  [doc |-> d, text |-> model_dump_json(d, indent)]

\* "if path": None and '' are falsy
truthy(p) == p # NoPath /\ p # EmptyStr

\* a target derived from the argument as load and create derive theirs
save_target_sidecar(arg, bound) ==
    IF truthy(arg) THEN with_suffix_meta(arg) ELSE bound

\* target_path = Path(path) if path else self.path
save_target(arg, bound) == IF truthy(arg) THEN arg ELSE bound

\* save that encodes the document before it refreshes updated_at
save_stale_text(document, bound, fs, arg, now) ==
    LET target_path == save_target(arg, bound) IN
    IF target_path = NoPath
    THEN [doc |-> document, storage |-> fs, target |-> NoPath,
          error |-> "ValueError: no target path"]
    ELSE [doc |-> dumps(document, TRUE, 2, now).doc,
          storage |-> [fs EXCEPT ![target_path] = model_dump_json(document, 2)],
          target |-> target_path, error |-> ""]

\* save that keeps the stored annotations whose names the document lacks
save_merging(document, bound, fs, arg, now) ==
    LET target_path == save_target(arg, bound) IN
    IF target_path = NoPath
    THEN [doc |-> document, storage |-> fs, target |-> NoPath,
          error |-> "ValueError: no target path"]
    ELSE LET r == dumps(document, TRUE, 2, now)
             old == model_validate_json(fs[target_path])
             kept == IF old.ok
                     THEN SelectSeq(old.doc.annotations,
                            LAMBDA a : \A i \in DOMAIN r.doc.annotations :
                                          r.doc.annotations[i].name # a.name)
                     ELSE <<>>
             merged == [r.doc EXCEPT !.annotations = @ \o kept]
         IN
         [doc |-> r.doc,
          storage |-> [fs EXCEPT ![target_path] = model_dump_json(merged, 2)],
          target |-> target_path, error |-> ""]

\* ImageAsset.save(path) at clock value now: the document and the
\* storage after the call, and the exception it ends with.
save(document, bound, fs, arg, now) ==
    LET target_path == save_target(arg, bound) IN
    IF target_path = NoPath
    THEN [doc |-> document, storage |-> fs, target |-> NoPath,
          error |-> "ValueError: no target path"]
    ELSE LET r == dumps(document, TRUE, 2, now) IN
         [doc |-> r.doc,
          storage |-> [fs EXCEPT ![target_path] = r.text],
          target |-> target_path, error |-> ""]

(***************************************************************************)
(* ImageAsset: the classmethods.                                           *)
(***************************************************************************)
exists(fs, p) == fs[p].kind # "absent"

\* load that falls back to the file at image_path when there is no sidecar
load_fallback(fs, image_path) ==
    LET sidecar == with_suffix_meta(image_path)
        meta_path == IF exists(fs, sidecar) THEN sidecar ELSE image_path
    IN
    IF ~exists(fs, meta_path)
    THEN [error |-> "FileNotFoundError", cause |-> "", asset |-> NoAsset,
          reads |-> {}]
    ELSE LET r == model_validate_json(fs[meta_path]) IN
         IF r.ok
         THEN [error |-> "", cause |-> "",
               asset |-> ImageAsset(r.doc, meta_path), reads |-> {meta_path}]
         ELSE [error |-> r.error, cause |-> r.cause, asset |-> NoAsset,
               reads |-> {meta_path}]

\* load that binds the asset to the image path it was given
load_bind_image(fs, image_path) ==
    LET meta_path == with_suffix_meta(image_path) IN
    IF ~exists(fs, meta_path)
    THEN [error |-> "FileNotFoundError", cause |-> "", asset |-> NoAsset,
          reads |-> {}]
    ELSE LET r == model_validate_json(fs[meta_path]) IN
         IF r.ok
         THEN [error |-> "", cause |-> "",
               asset |-> ImageAsset(r.doc, image_path), reads |-> {meta_path}]
         ELSE [error |-> r.error, cause |-> r.cause, asset |-> NoAsset,
               reads |-> {meta_path}]

\* ImageAsset.load(image_path)
load(fs, image_path) ==
    LET meta_path == with_suffix_meta(image_path) IN
    IF ~exists(fs, meta_path)
    THEN [error |-> "FileNotFoundError", cause |-> "", asset |-> NoAsset,
          reads |-> {}]
    ELSE LET r == model_validate_json(fs[meta_path]) IN
         IF r.ok
         THEN [error |-> "", cause |-> "",
               asset |-> ImageAsset(r.doc, meta_path), reads |-> {meta_path}]
         ELSE [error |-> r.error, cause |-> r.cause, asset |-> NoAsset,
               reads |-> {meta_path}]

\* ImageAsset.loads(json_str, source_path)
loads(json_str, source_path) ==
    LET r == model_validate_json(json_str) IN
    IF r.ok
    THEN [error |-> "", cause |-> "", asset |-> ImageAsset(r.doc, source_path),
          reads |-> {}]
    ELSE [error |-> "InvalidFileError", cause |-> r.cause, asset |-> NoAsset,
          reads |-> {}]

\* create that binds the image path itself
create_bind_image(file_path, image_width, image_height, now1, now2) ==
    ImageAsset(
        Document("image",
                 Meta(FORMAT_VERSION, CLI_NAME, CLI_VERSION,
                      utc_now(now1), utc_now(now2)),
                 ImageFile(image_width, image_height), <<>>),
        file_path)

\* create that gives the first clock reading to updated_at
create_swapped_reads(file_path, image_width, image_height, now1, now2) ==
    ImageAsset(
        Document("image",
                 Meta(FORMAT_VERSION, CLI_NAME, CLI_VERSION,
                      utc_now(now2), utc_now(now1)),
                 ImageFile(image_width, image_height), <<>>),
        with_suffix_meta(file_path))

\* ImageAsset.create(file_path, image_width, image_height); the clock is
\* read once for created_at and once more for updated_at.
create(file_path, image_width, image_height, now1, now2) ==
    ImageAsset(
        Document("image",
                 Meta(FORMAT_VERSION, CLI_NAME, CLI_VERSION,
                      utc_now(now1), utc_now(now2)),
                 ImageFile(image_width, image_height), <<>>),
        with_suffix_meta(file_path))

(***************************************************************************)
(* The state machine: one caller, one asset, one call at a time.           *)
(***************************************************************************)
Call0 ==
    [op |-> "", error |-> "", cause |-> "", annotation |-> None, name |-> "",
     overwrite |-> FALSE, update_timestamp |-> FALSE, arg |-> NoPath,
     ret |-> None, found |-> FALSE, text |-> Absent, target |-> NoPath,
     reads |-> {}, now |-> 0, width |-> 0, height |-> 0, asset |-> 1]

Widths == {1, 1920}
Heights == {1080}
Indents == {0, 2}
Ticks == {0, 1}

\* the sidecar of image a is missing or holds one of the texts; the
\* images themselves are files that are not JSON
InitStorages ==
    {[p \in AllPaths |->
        IF p.ext = "png" THEN Malformed
        ELSE IF p.stem = "a" THEN t ELSE Absent] : t \in InitTexts \cup {Absent}}

Init ==
    /\ has_asset = FALSE
    /\ doc = NoAsset.doc
    /\ path = NoAsset.path
    /\ name_map = NoAsset.name_map
    /\ distinct0 = TRUE
    /\ storage \in InitStorages
    /\ clock = 0
    /\ nops = 0
    /\ last = Call0
    /\ asset2 = NoAsset

names_distinct(annotations) ==
    \A i, j \in DOMAIN annotations :
        annotations[i].name = annotations[j].name => i = j

\* the caller keeps the asset a classmethod returns
Bind(asset) ==
    /\ has_asset' = TRUE
    /\ doc' = asset.doc
    /\ path' = asset.path
    /\ name_map' = asset.name_map
    /\ distinct0' = names_distinct(asset.doc.annotations)

Load(image_path) ==
    /\ LET r == load(storage, image_path) IN
       /\ IF r.error = "" THEN Bind(r.asset)
          ELSE UNCHANGED <<has_asset, doc, path, name_map, distinct0>>
       /\ last' = [Call0 EXCEPT !.op = "load", !.arg = image_path,
                                !.error = r.error, !.cause = r.cause,
                                !.reads = r.reads]
    /\ UNCHANGED <<storage, clock>>

Loads(json_str, source_path) ==
    /\ LET r == loads(json_str, source_path) IN
       /\ IF r.error = "" THEN Bind(r.asset)
          ELSE UNCHANGED <<has_asset, doc, path, name_map, distinct0>>
       /\ last' = [Call0 EXCEPT !.op = "loads", !.arg = source_path,
                                !.text = json_str,
                                !.error = r.error, !.cause = r.cause]
    /\ UNCHANGED <<storage, clock>>

\* create that also writes the new sidecar
CreateAndWrite(file_path, image_width, image_height, tick1, tick2) ==
    /\ clock + tick1 + tick2 <= MaxClock
    /\ clock' = clock + tick1 + tick2
    /\ Bind(create(file_path, image_width, image_height,
                   clock + tick1, clock + tick1 + tick2))
    /\ last' = [Call0 EXCEPT !.op = "create", !.arg = file_path,
                             !.width = image_width, !.height = image_height,
                             !.now = clock + tick1 + tick2]
    /\ storage' = [storage EXCEPT ![with_suffix_meta(file_path)] =
                      model_dump_json(doc', 2)]

\* the clock may advance before each of create's two reads
Create(file_path, image_width, image_height, tick1, tick2) ==
    /\ clock + tick1 + tick2 <= MaxClock
    /\ clock' = clock + tick1 + tick2
    /\ Bind(create(file_path, image_width, image_height,
                   clock + tick1, clock + tick1 + tick2))
    /\ last' = [Call0 EXCEPT !.op = "create", !.arg = file_path,
                             !.width = image_width, !.height = image_height,
                             !.now = clock + tick1 + tick2]
    /\ UNCHANGED storage

Save(arg, tick) ==
    /\ has_asset
    /\ clock + tick <= MaxClock
    /\ LET r == save(doc, path, storage, arg, clock + tick) IN
       /\ doc' = r.doc
       /\ storage' = r.storage
       /\ clock' = IF r.error = "" THEN clock + tick ELSE clock
       /\ last' = [Call0 EXCEPT !.op = "save", !.arg = arg,
                                !.error = r.error, !.target = r.target,
                                !.now = clock']
    /\ UNCHANGED <<has_asset, path, name_map, distinct0>>

Dumps(update_timestamp, indent, tick) ==
    /\ has_asset
    /\ clock + tick <= MaxClock
    /\ update_timestamp \/ tick = 0
    /\ LET r == dumps(doc, update_timestamp, indent, clock + tick) IN
       /\ doc' = r.doc
       /\ last' = [Call0 EXCEPT !.op = "dumps", !.text = r.text,
                                !.update_timestamp = update_timestamp,
                                !.now = clock + tick]
    /\ clock' = clock + tick
    /\ UNCHANGED <<has_asset, path, name_map, distinct0, storage>>

GetAnnotation(name) ==
    /\ has_asset
    /\ last' = [Call0 EXCEPT !.op = "get_annotation", !.name = name,
                             !.ret = get_annotation(name_map, name)]
    /\ UNCHANGED <<has_asset, doc, path, name_map, distinct0, storage, clock>>

Contains(name) ==
    /\ has_asset
    /\ last' = [Call0 EXCEPT !.op = "contains", !.name = name,
                             !.found = contains(name_map, name)]
    /\ UNCHANGED <<has_asset, doc, path, name_map, distinct0, storage, clock>>

AddAnnotation(annotation, overwrite) ==
    /\ has_asset
    /\ LET r == add_annotation(doc.annotations, name_map, annotation, overwrite) IN
       /\ doc' = [doc EXCEPT !.annotations = r.annotations]
       /\ name_map' = r.name_map
       /\ last' = [Call0 EXCEPT !.op = "add_annotation",
                                !.annotation = annotation,
                                !.name = annotation.name,
                                !.overwrite = overwrite, !.error = r.error]
    /\ UNCHANGED <<has_asset, path, distinct0, storage, clock>>

RemoveAnnotation(name) ==
    /\ has_asset
    /\ LET r == remove_annotation(doc.annotations, name_map, name) IN
       /\ doc' = [doc EXCEPT !.annotations = r.annotations]
       /\ name_map' = r.name_map
       /\ last' = [Call0 EXCEPT !.op = "remove_annotation", !.name = name,
                                !.ret = r.ret, !.error = r.error]
    /\ UNCHANGED <<has_asset, path, distinct0, storage, clock>>

LoadArgs == {P("a", "png"), P("b", "png")}
SaveArgs == {NoPath, EmptyStr, P("b", "png"), P("b", "meta")}
SourcePaths == {NoPath, P("a", "meta")}

\* one more API call of a run of at most MaxOps calls
Count == nops < MaxOps /\ nops' = nops + 1 /\ UNCHANGED asset2

Next ==
    \/ \E p \in LoadArgs : Count /\ Load(p)
    \/ \E t \in InitTexts, p \in SourcePaths : Count /\ Loads(t, p)
    \/ \E p \in LoadArgs, w \in Widths, h \in Heights, t1 \in Ticks, t2 \in Ticks :
          Count /\ Create(p, w, h, t1, t2)
    \/ \E p \in SaveArgs, t \in Ticks : Count /\ Save(p, t)
    \/ \E u \in BOOLEAN, i \in Indents, t \in Ticks : Count /\ Dumps(u, i, t)
    \/ \E n \in Names : Count /\ GetAnnotation(n)
    \/ \E n \in Names : Count /\ Contains(n)
    \/ \E a \in Annotations, o \in BOOLEAN : Count /\ AddAnnotation(a, o)
    \/ \E n \in Names : Count /\ RemoveAnnotation(n)

\* Every method, in runs of at most MaxOps calls.
Spec == Init /\ [][Next]_vars

\* Editing in memory: runs of any length of the classmethods and the
\* annotation methods, on a storage nobody writes and a clock that stands.
InitEdit == Init /\ storage[P("a", "meta")] \in {OneText, DupText}

NextEdit ==
    \/ \E p \in LoadArgs : Load(p) /\ UNCHANGED <<nops, asset2>>
    \/ \E t \in InitTexts, p \in SourcePaths : Loads(t, p) /\ UNCHANGED <<nops, asset2>>
    \/ \E p \in LoadArgs, w \in Widths, h \in Heights :
          Create(p, w, h, 0, 0) /\ UNCHANGED <<nops, asset2>>
    \/ \E n \in Names : GetAnnotation(n) /\ UNCHANGED <<nops, asset2>>
    \/ \E n \in Names : Contains(n) /\ UNCHANGED <<nops, asset2>>
    \/ \E a \in Annotations, o \in BOOLEAN : AddAnnotation(a, o) /\ UNCHANGED <<nops, asset2>>
    \/ \E n \in Names : RemoveAnnotation(n) /\ UNCHANGED <<nops, asset2>>

SpecEdit == InitEdit /\ [][NextEdit]_vars

(***************************************************************************)
(* Properties of the annotation methods, checked under SpecEdit.           *)
(***************************************************************************)
names_of(annotations) == {annotations[i].name : i \in DOMAIN annotations}

\* the entries of a sequence that do not carry the name
without_name(annotations, name) ==
    LET Other(a) == a.name # name IN SelectSeq(annotations, Other)

\* the sequence minus its element at position i
without_index(s, i) == SubSeq(s, 1, i - 1) \o SubSeq(s, i + 1, Len(s))

\* C1: for an asset built from a document of pairwise-distinct annotation
\* names, after any run of add_annotation and remove_annotation calls the
\* keys of the name index are the names in the sequence, no two entries of
\* the sequence share a name, and get_annotation(n) is the entry named n.
C1_IndexConsistency ==
    (has_asset /\ distinct0) =>
        /\ DOMAIN name_map = names_of(doc.annotations)
        /\ names_distinct(doc.annotations)
        /\ \A i \in DOMAIN doc.annotations :
              get_annotation(name_map, doc.annotations[i].name) = doc.annotations[i]
        /\ \A n \in Names \ names_of(doc.annotations) :
              get_annotation(name_map, n) = None

\* an asset built from distinct names holds two entries after a removal
C1_Witness ==
    /\ has_asset /\ distinct0
    /\ last.op = "remove_annotation" /\ last.ret # None
    /\ Len(doc.annotations) = 2

\* C2: in every state of an asset (loaded, created, edited) no two
\* annotations of the sequence share a name and every annotation of the
\* sequence is what get_annotation returns for its name.
C2_NamesUnique ==
    has_asset =>
        /\ names_distinct(doc.annotations)
        /\ \A i \in DOMAIN doc.annotations :
              get_annotation(name_map, doc.annotations[i].name) = doc.annotations[i]

\* C3: add_annotation of a name the asset contains, with overwrite=False,
\* raises the duplicate-name error and changes nothing: not the sequence,
\* not the index, not meta, not the bound path, not the storage.
C3_DuplicateAddRejected ==
    [][(/\ last'.op = "add_annotation"
        /\ ~last'.overwrite
        /\ contains(name_map, last'.name))
       => (/\ last'.error = "ValueError: already exists"
           /\ doc' = doc
           /\ name_map' = name_map
           /\ path' = path
           /\ storage' = storage)]_vars

\* a rejected add on an asset of two annotations
C3_Witness ==
    /\ has_asset /\ distinct0
    /\ last.op = "add_annotation" /\ ~last.overwrite
    /\ last.error = "ValueError: already exists"
    /\ contains(name_map, last.name)
    /\ get_annotation(name_map, last.name) # last.annotation
    /\ Len(doc.annotations) = 2

\* C4: add_annotation of a name the asset contains, with overwrite=True,
\* replaces the entry: the length is unchanged, no old entry of that name
\* is left, the new annotation is the last element, the other entries keep
\* their order, and get_annotation(name) is the new annotation.
C4_OverwriteReplaces ==
    [][(/\ last'.op = "add_annotation"
        /\ last'.overwrite
        /\ contains(name_map, last'.name))
       => (/\ last'.error = ""
           /\ Len(doc'.annotations) = Len(doc.annotations)
           /\ doc'.annotations =
                 Append(without_name(doc.annotations, last'.name),
                        last'.annotation)
           /\ get_annotation(name_map', last'.name) = last'.annotation)]_vars

\* C5: remove_annotation never raises; for a name the asset does not
\* contain it returns None and leaves sequence and index alone; for a name
\* it contains it returns the indexed annotation, drops exactly one entry
\* (an entry equal to the one returned; the others keep their order) and
\* the index key, so that get_annotation and the membership test on that
\* name then report absent.
C5_RemoveAnnotation ==
    [][(last'.op = "remove_annotation") =>
        /\ last'.error = ""
        /\ IF ~contains(name_map, last'.name)
           THEN /\ last'.ret = None
                /\ doc' = doc
                /\ name_map' = name_map
           ELSE /\ last'.ret = get_annotation(name_map, last'.name)
                /\ last'.ret.name = last'.name
                /\ Len(doc'.annotations) = Len(doc.annotations) - 1
                /\ \E i \in DOMAIN doc.annotations :
                      /\ doc.annotations[i] = last'.ret
                      /\ doc'.annotations = without_index(doc.annotations, i)
                /\ doc' = [doc EXCEPT !.annotations = doc'.annotations]
                /\ name_map' = dict_pop(name_map, last'.name)
                /\ ~contains(name_map', last'.name)
                /\ get_annotation(name_map', last'.name) = None]_vars

\* a removal that returned an annotation and left another behind
C5_Witness ==
    /\ has_asset /\ distinct0
    /\ last.op = "remove_annotation" /\ last.ret # None
    /\ last.ret.name = last.name
    /\ ~contains(name_map, last.name)
    /\ Len(doc.annotations) >= 1

(***************************************************************************)
(* Properties of create, save and load, checked under Spec.                *)
(***************************************************************************)
\* C6: create(location, width, height) returns, whatever the clock does
\* between its reads, a document of type "image" with file {width, height},
\* no annotations, meta.version = FORMAT_VERSION = 1 and
\* created_at = updated_at.
C6_CreateDocument ==
    last.op = "create" =>
        /\ doc.type = "image"
        /\ doc.file = ImageFile(last.width, last.height)
        /\ doc.annotations = <<>>
        /\ doc.meta.version = FORMAT_VERSION
        /\ doc.meta.version = 1
        /\ doc.meta.created_at = doc.meta.updated_at

\* C7: only save changes the storage.  create binds the asset to the
\* sidecar path derived from its argument and writes nothing (a sidecar
\* that did not exist still does not); add_annotation, remove_annotation,
\* dumps, get_annotation, the membership test, load and loads leave every
\* path of the storage as it was.
C7_OnlySaveWrites ==
    [][/\ (storage' # storage => (last'.op = "save" /\ last'.error = ""))
       /\ (last'.op = "create" =>
              /\ path' = with_suffix_meta(last'.arg)
              /\ storage' = storage
              /\ (~exists(storage, path') => ~exists(storage', path')))]_vars

\* create has bound the asset to a sidecar that is not in the storage
C7_Witness ==
    /\ last.op = "create"
    /\ path = with_suffix_meta(last.arg)
    /\ ~exists(storage, path)

\* C8: save writes to its argument when one is given, else to the bound
\* path, else raises the no-target error.  A save that succeeds sets
\* meta.updated_at to the clock's value and leaves at the target exactly
\* the encoding of the asset's document as it then is; a save that raises
\* the no-target error changes neither updated_at nor the document nor
\* any path of the storage.
C8_Save ==
    [][(last'.op = "save") =>
        LET given == last'.arg \notin {NoPath, EmptyStr}
            target == IF given THEN last'.arg ELSE path
        IN  IF target = NoPath
            THEN /\ last'.error = "ValueError: no target path"
                 /\ doc' = doc
                 /\ storage' = storage
            ELSE /\ last'.error = ""
                 /\ last'.target = target
                 /\ doc'.meta.updated_at = utc_now(clock')
                 /\ doc' = [doc EXCEPT !.meta.updated_at = utc_now(clock')]
                 /\ storage'[target] = model_dump_json(doc', 2)
                 /\ model_validate_json(storage'[target]).doc = doc']_vars

\* a save without argument has overwritten the bound sidecar after the
\* clock moved
C8_Witness ==
    /\ last.op = "save" /\ last.error = "" /\ last.arg = NoPath
    /\ last.target = path
    /\ clock > 0
    /\ doc.meta.updated_at = utc_now(clock)
    /\ doc.meta.created_at # doc.meta.updated_at
    /\ storage[path] = model_dump_json(doc, 2)

\* C9: load(location) when the sidecar derived from location is not in
\* the storage raises the not-found error, returns no asset, reads no
\* file and creates none, also when a file exists at location itself.
C9_LoadMissingSidecar ==
    [][(/\ last'.op = "load"
        /\ ~exists(storage, with_suffix_meta(last'.arg)))
       => (/\ last'.error = "FileNotFoundError"
           /\ last'.reads = {}
           /\ storage' = storage
           /\ UNCHANGED <<has_asset, doc, path, name_map>>)]_vars

\* a load that found no sidecar beside an image that exists
C9_Witness ==
    /\ last.op = "load" /\ last.error = "FileNotFoundError"
    /\ exists(storage, last.arg)
    /\ ~exists(storage, with_suffix_meta(last.arg))

\* C10 as stated: load on an existing sidecar that is malformed or
\* violates the schema raises InvalidFileError (as loads does for the same
\* text), and otherwise returns an asset bound to the sidecar path.
C10_LoadRaisesInvalidFile ==
    [][(/\ last'.op = "load"
        /\ exists(storage, with_suffix_meta(last'.arg)))
       => LET meta_path == with_suffix_meta(last'.arg)
              r == model_validate_json(storage[meta_path])
          IN  IF r.ok
              THEN /\ last'.error = ""
                   /\ has_asset' /\ path' = meta_path /\ doc' = r.doc
              ELSE /\ last'.error = "InvalidFileError"
                   /\ last'.error = loads(storage[meta_path], NoPath).error
                   /\ UNCHANGED <<has_asset, doc, path, name_map>>]_vars

\* C10 as amended: load on an existing sidecar that is malformed or
\* violates the schema raises pydantic's ValidationError itself, not
\* wrapped (loads raises InvalidFileError for the same text, from the same
\* underlying error), and otherwise returns an asset bound to the sidecar
\* path.
C10_LoadRaisesValidationError ==
    [][(/\ last'.op = "load"
        /\ exists(storage, with_suffix_meta(last'.arg)))
       => LET meta_path == with_suffix_meta(last'.arg)
              r == model_validate_json(storage[meta_path])
          IN  IF r.ok
              THEN /\ last'.error = ""
                   /\ has_asset' /\ path' = meta_path /\ doc' = r.doc
                   /\ name_map' = init_name_map(r.doc.annotations)
              ELSE /\ last'.error = "ValidationError"
                   /\ last'.cause = r.cause
                   /\ loads(storage[meta_path], NoPath).error = "InvalidFileError"
                   /\ loads(storage[meta_path], NoPath).cause = last'.cause
                   /\ UNCHANGED <<has_asset, doc, path, name_map>>]_vars

\* a load that raised on a sidecar that is JSON and violates the schema
C10_Witness ==
    /\ last.op = "load" /\ last.error = "ValidationError"
    /\ last.cause = "schema"
    /\ storage[with_suffix_meta(last.arg)].kind = "json"

(***************************************************************************)
(* The codec: loads of caller-made texts, dumps, and loads of what dumps   *)
(* returned.                                                               *)
(***************************************************************************)
MaxAnnotations == 2

\* one entry of the "annotations" array of a text
AnnotationJson(uuid, name, description, attributes, extra) ==
    [uuid |-> uuid, name |-> name, display_name |-> name,
     description |-> description, attributes |-> attributes, extra |-> extra]

\* "type" values of a payload: the built-in tags, another tag, no key
CodecTypes == BuiltInAnnotationType \cup {"unknown_tag", "<missing>"}

Geometries == {RectKeys, PointKeys, Vec2Keys}

\* every type value with every geometry (or none), with and without
\* another key
CodecPayloads ==
    {Payload(t, FALSE, {}, o) : t \in CodecTypes, o \in {{}, {"foo"}}}
    \cup {Payload(t, TRUE, g, o) :
            t \in CodecTypes, g \in Geometries, o \in {{}, {"foo"}}}

CodecSingles ==
    {AnnotationJson("u1", "n1", "<None>", a, "<None>") : a \in CodecPayloads}

\* description and extra are null or set
CodecPairs ==
    {AnnotationJson("u1", "n1", "<None>",
                    Payload("box", TRUE, RectKeys, {}), "<None>"),
     AnnotationJson("u2", "n1", "a description",
                    Payload("point", TRUE, PointKeys, {}), "<None>"),
     AnnotationJson("u3", "n2", "a description",
                    Payload("unknown_tag", TRUE, RectKeys, {"foo"}),
                    "{owner: me}")}

\* UTC, no offset (a naive timestamp), another offset
Offsets == {"Z", "", "+08:00"}

CodecText(off, annotations) ==
    JsonText(2,
        [type |-> "image",
         meta |-> [version |-> FORMAT_VERSION, tool |-> CLI_NAME,
                   tool_version |-> CLI_VERSION,
                   created_at |-> [t |-> 0, off |-> off],
                   updated_at |-> [t |-> 0, off |-> off]],
         file |-> [width |-> JInt(1920), height |-> JInt(1080)],
         annotations |-> annotations])

CodecTexts ==
    {CodecText("Z", <<a>>) : a \in CodecSingles}
    \cup {CodecText(off, s) :
            off \in Offsets,
            s \in UNION {[1..k -> CodecPairs] : k \in 0..MaxAnnotations}}

CodecIndents == {0, 2, 4}

InitCodec == Init /\ storage[P("a", "meta")] = Absent

NextCodec ==
    \/ \E t \in CodecTexts : Loads(t, NoPath) /\ UNCHANGED <<nops, asset2>>
    \/ \E u \in BOOLEAN, i \in CodecIndents :
          Dumps(u, i, 0) /\ UNCHANGED <<nops, asset2>>
    \/ last.op = "dumps" /\ Loads(last.text, NoPath)
          /\ UNCHANGED <<nops, asset2>>

SpecCodec == InitCodec /\ [][NextCodec]_vars

\* C11: decoding what dumps(update_timestamp=False) returned gives back the
\* asset's document, equal in every field (uuid, description, attributes,
\* extra, timestamps) and in the order of its annotations, and the decoded
\* document is the same for indent 0 and indent 4.
C11_RoundTrip ==
    /\ [][(/\ last.op = "dumps"
           /\ ~last.update_timestamp
           /\ last'.op = "loads"
           /\ last'.text = last.text)
          => (last'.error = "" /\ has_asset' /\ doc' = doc)]_vars
    /\ [](has_asset =>
            LET a == loads(dumps(doc, FALSE, 0, clock).text, NoPath)
                b == loads(dumps(doc, FALSE, 4, clock).text, NoPath)
            IN  /\ a.error = ""
                /\ b.error = ""
                /\ a.asset = b.asset
                /\ a.asset.doc = doc)

\* a document of two annotations, one of them custom with description and
\* extra set, has come back from the text dumps printed with indent 4
C11_Witness ==
    /\ last.op = "loads"
    /\ last.error = ""
    /\ last.text.indent = 4
    /\ last.text = model_dump_json(doc, 4)
    /\ Len(doc.annotations) = 2
    /\ doc.annotations[1].attributes.variant = "box"
    /\ doc.annotations[2].attributes.variant = "custom"
    /\ doc.annotations[2].extra # "<None>"
    /\ doc.meta.created_at.tz = "naive"

\* C12: decoding dispatches on the "type" value alone: a payload whose type
\* is a built-in tag decodes, when it decodes, to that built-in variant, and
\* a payload of any other type or of none always decodes, to the custom
\* variant holding the payload as it was given (type key, geometry and other
\* keys), whatever its shape.
C12_DispatchOnType ==
    (last.op = "loads" /\ last.text.kind = "json") =>
        LET anns == last.text.body.annotations IN
        /\ (\A i \in DOMAIN anns :
                anns[i].attributes.type \notin BuiltInAnnotationType)
              => last.error = ""
        /\ last.error = "" =>
              /\ DOMAIN doc.annotations = DOMAIN anns
              /\ \A i \in DOMAIN anns :
                    LET p == anns[i].attributes
                        a == doc.annotations[i].attributes
                    IN  IF p.type \in BuiltInAnnotationType
                        THEN a.variant = p.type
                        ELSE a = [variant |-> "custom", payload |-> p]

\* a payload of an unknown type with the geometry of a box was decoded
C12_Witness ==
    /\ last.op = "loads"
    /\ last.error = ""
    /\ Len(doc.annotations) = 1
    /\ last.text.body.annotations[1].attributes =
          Payload("unknown_tag", TRUE, RectKeys, {"foo"})
    /\ doc.annotations[1].attributes.variant = "custom"

\* a built-in payload lacks a field its variant's geometry declares
geometry_missing(p) ==
    /\ p.type \in BuiltInAnnotationType
    /\ ~p.has_geometry \/ ~(geometry_fields(p.type) \subseteq p.geometry)

\* a built-in payload has no geometry or the geometry of another variant
geometry_of_other_variant(p) ==
    /\ p.type \in BuiltInAnnotationType
    /\ ~p.has_geometry \/ p.geometry \in Geometries \ {geometry_fields(p.type)}

\* C13: a payload under a built-in tag whose geometry is absent or lacks a
\* field of that tag's geometry makes loads fail with the validation error;
\* every other text decodes, each built-in payload to its own variant with
\* exactly the declared geometry fields (keys the variant does not declare
\* are dropped), never to the custom or another built-in variant.
C13_GeometryMismatch ==
    (last.op = "loads" /\ last.text.kind = "json") =>
        LET anns == last.text.body.annotations IN
        /\ (\E i \in DOMAIN anns : geometry_missing(anns[i].attributes))
              => (last.error = "InvalidFileError" /\ last.cause = "schema")
        /\ (\A i \in DOMAIN anns : ~geometry_missing(anns[i].attributes))
              => last.error = ""
        /\ last.error = "" =>
              \A i \in DOMAIN anns :
                 LET p == anns[i].attributes IN
                 p.type \in BuiltInAnnotationType =>
                    doc.annotations[i].attributes =
                       [variant |-> p.type,
                        payload |-> Payload(p.type, TRUE,
                                            geometry_fields(p.type), {})]

\* C13 as it was stated: every built-in payload whose geometry is absent or
\* has the shape of another variant makes loads fail.
C13_EveryMismatchRejected ==
    (/\ last.op = "loads"
     /\ last.text.kind = "json"
     /\ \E i \in DOMAIN last.text.body.annotations :
           geometry_of_other_variant(last.text.body.annotations[i].attributes))
    => last.error # ""

\* loads has refused a box whose geometry is a point
C13_Witness ==
    /\ last.op = "loads"
    /\ last.error = "InvalidFileError"
    /\ last.text.kind = "json"
    /\ Len(last.text.body.annotations) = 1
    /\ last.text.body.annotations[1].attributes.type = "box"
    /\ last.text.body.annotations[1].attributes.has_geometry
    /\ last.text.body.annotations[1].attributes.geometry = PointKeys

\* C14: every text dumps returns carries created_at and updated_at with an
\* explicit UTC offset.
C14_UtcOffsetAlways ==
    last.op = "dumps" =>
        /\ last.text.body.meta.created_at.off = "Z"
        /\ last.text.body.meta.updated_at.off = "Z"

(***************************************************************************)
(* Two assets of one sidecar.  The caller loads the same image twice and   *)
(* edits and saves through either asset, one call at a time, in any order. *)
(***************************************************************************)
Load2(image_path) ==
    /\ LET r == load(storage, image_path) IN
       /\ asset2' = IF r.error = "" THEN r.asset ELSE asset2
       /\ last' = [Call0 EXCEPT !.op = "load", !.arg = image_path,
                                !.error = r.error, !.cause = r.cause,
                                !.reads = r.reads, !.asset = 2]
    /\ UNCHANGED <<has_asset, doc, path, name_map, distinct0, storage, clock>>

Save2(arg, tick) ==
    /\ asset2 # NoAsset
    /\ clock + tick <= MaxClock
    /\ LET r == save(asset2.doc, asset2.path, storage, arg, clock + tick) IN
       /\ asset2' = [asset2 EXCEPT !.doc = r.doc]
       /\ storage' = r.storage
       /\ clock' = IF r.error = "" THEN clock + tick ELSE clock
       /\ last' = [Call0 EXCEPT !.op = "save", !.arg = arg,
                                !.error = r.error, !.target = r.target,
                                !.now = clock', !.asset = 2]
    /\ UNCHANGED <<has_asset, doc, path, name_map, distinct0>>

AddAnnotation2(annotation, overwrite) ==
    /\ asset2 # NoAsset
    /\ LET r == add_annotation(asset2.doc.annotations, asset2.name_map,
                               annotation, overwrite) IN
       /\ asset2' = [asset2 EXCEPT !.doc.annotations = r.annotations,
                                   !.name_map = r.name_map]
       /\ last' = [Call0 EXCEPT !.op = "add_annotation",
                                !.annotation = annotation,
                                !.name = annotation.name,
                                !.overwrite = overwrite, !.error = r.error,
                                !.asset = 2]
    /\ UNCHANGED <<has_asset, doc, path, name_map, distinct0, storage, clock>>

RemoveAnnotation2(name) ==
    /\ asset2 # NoAsset
    /\ LET r == remove_annotation(asset2.doc.annotations, asset2.name_map,
                                  name) IN
       /\ asset2' = [asset2 EXCEPT !.doc.annotations = r.annotations,
                                   !.name_map = r.name_map]
       /\ last' = [Call0 EXCEPT !.op = "remove_annotation", !.name = name,
                                !.ret = r.ret, !.error = r.error,
                                !.asset = 2]
    /\ UNCHANGED <<has_asset, doc, path, name_map, distinct0, storage, clock>>

\* the annotations and names the two callers work with
TwoAnnotations ==
    {Annotation("u3", "n2", CustomAttributes),
     Annotation("u4", "n3", BoxAttributes)}

TwoNames == {"n1", "n2"}

InitTwo == Init /\ storage[P("a", "meta")] = OneText

NextTwo ==
    \/ Load(P("a", "png")) /\ UNCHANGED <<nops, asset2>>
    \/ \E a \in TwoAnnotations :
          AddAnnotation(a, FALSE) /\ UNCHANGED <<nops, asset2>>
    \/ \E n \in TwoNames : RemoveAnnotation(n) /\ UNCHANGED <<nops, asset2>>
    \/ Save(NoPath, 0) /\ UNCHANGED <<nops, asset2>>
    \/ Load2(P("a", "png")) /\ UNCHANGED nops
    \/ \E a \in TwoAnnotations : AddAnnotation2(a, FALSE) /\ UNCHANGED nops
    \/ \E n \in TwoNames : RemoveAnnotation2(n) /\ UNCHANGED nops
    \/ Save2(NoPath, 0) /\ UNCHANGED nops

SpecTwo == InitTwo /\ [][NextTwo]_vars

\* C15: with two assets bound to one sidecar, every save succeeds and
\* leaves in the sidecar the encoding of the saving asset's own document,
\* whatever the other asset wrote there before (nothing of the stored text
\* is kept), and a call on one asset leaves the other asset's document,
\* name index and path as they were.
C15_LastWriterWins ==
    [][/\ last'.asset = 1 => asset2' = asset2
       /\ last'.asset = 2 =>
             (has_asset' = has_asset /\ doc' = doc /\ name_map' = name_map
              /\ path' = path)
       /\ (last'.op = "save" /\ last'.asset = 1) =>
             /\ last'.error = ""
             /\ storage' = [storage EXCEPT ![path] = model_dump_json(doc', 2)]
             /\ loads(storage'[path], path).asset = ImageAsset(doc', path)
       /\ (last'.op = "save" /\ last'.asset = 2) =>
             /\ last'.error = ""
             /\ storage' = [storage EXCEPT ![asset2.path] =
                               model_dump_json(asset2'.doc, 2)]
             /\ loads(storage'[asset2.path], asset2.path).asset =
                   ImageAsset(asset2'.doc, asset2.path)]_vars

\* the two assets have diverged, each holding an annotation the other
\* lacks, and the second asset has just saved: the sidecar holds its
\* document and not the first asset's annotation
C15_Witness ==
    /\ has_asset
    /\ asset2 # NoAsset
    /\ path = asset2.path
    /\ last.op = "save"
    /\ last.asset = 2
    /\ storage[path] = model_dump_json(asset2.doc, 2)
    /\ \E i \in DOMAIN doc.annotations :
          /\ ~list_contains(asset2.doc.annotations, doc.annotations[i])
          /\ ~list_contains(loads(storage[path], path).asset.doc.annotations,
                            doc.annotations[i])
    /\ \E j \in DOMAIN asset2.doc.annotations :
          ~list_contains(doc.annotations, asset2.doc.annotations[j])

(***************************************************************************)
(* The order of the annotations.  The asset is created empty; the caller   *)
(* numbers its add_annotation calls and gives the annotation of the k-th   *)
(* call the uuid k, so an entry's uuid tells which add put it there.       *)
(***************************************************************************)
MaxAdds == 4

AddNumbered(name, overwrite) ==
    /\ nops < MaxAdds
    /\ nops' = nops + 1
    /\ AddAnnotation(Annotation(nops + 1, name, BoxAttributes), overwrite)

InitOrder == Init /\ storage[P("a", "meta")] = Absent

NextOrder ==
    \/ Create(P("a", "png"), 1920, 1080, 0, 0) /\ UNCHANGED <<nops, asset2>>
    \/ \E n \in Names, o \in BOOLEAN : AddNumbered(n, o) /\ UNCHANGED asset2
    \/ \E n \in Names : RemoveAnnotation(n) /\ UNCHANGED <<nops, asset2>>

SpecOrder == InitOrder /\ [][NextOrder]_vars

\* C16: on an asset created empty, after any run of add_annotation and
\* remove_annotation calls, iteration lists the annotations in the order of
\* the add calls that put them there (and as many as __len__ says); a
\* successful add puts its annotation last and leaves no other entry of that
\* name; a failed add changes nothing; a removal drops the entry of that
\* name and keeps the others in their order.
C16_InsertionOrder ==
    /\ [](has_asset =>
            /\ __len__(doc.annotations) = Len(__iter__(doc.annotations))
            /\ \A i, j \in DOMAIN __iter__(doc.annotations) :
                  i < j => __iter__(doc.annotations)[i].uuid
                              < __iter__(doc.annotations)[j].uuid)
    /\ [][/\ (last'.op = "add_annotation" /\ last'.error = "") =>
                doc'.annotations =
                   Append(without_name(doc.annotations, last'.name),
                          last'.annotation)
          /\ (last'.op = "add_annotation" /\ last'.error # "") =>
                doc'.annotations = doc.annotations
          /\ last'.op = "remove_annotation" =>
                doc'.annotations = without_name(doc.annotations, last'.name)]_vars

\* n1 was added first and added again, with overwrite, after n2: it is
\* listed after n2
C16_Witness ==
    /\ has_asset
    /\ last.op = "add_annotation"
    /\ last.overwrite
    /\ last.error = ""
    /\ Len(doc.annotations) = 2
    /\ doc.annotations[1].name = "n2"
    /\ doc.annotations[1].uuid = 2
    /\ doc.annotations[2].name = "n1"
    /\ doc.annotations[2].uuid = 3

\* C17: dumps writes nothing and returns the encoding of the document as
\* the call leaves it, which for the default arguments is the text save
\* would write at the same instant.  With update_timestamp=False the asset
\* is unchanged, so a second such call returns the same text; with
\* update_timestamp=True the only change is meta.updated_at.
C17_DumpsFrame ==
    [][last'.op = "dumps" =>
         /\ storage' = storage
         /\ has_asset' = has_asset
         /\ path' = path
         /\ name_map' = name_map
         /\ last'.text = model_dump_json(doc', last'.text.indent)
         /\ (last'.update_timestamp /\ last'.text.indent = 2) =>
               \A q \in AllPaths :
                  save(doc, path, storage, q, last'.now).storage[q] = last'.text
         /\ ~last'.update_timestamp =>
               /\ doc' = doc
               /\ (/\ last.op = "dumps"
                   /\ ~last.update_timestamp
                   /\ last.text.indent = last'.text.indent)
                  => last'.text = last.text
         /\ last'.update_timestamp =>
               /\ doc'.meta.updated_at = utc_now(last'.now)
               /\ doc' = [doc EXCEPT !.meta.updated_at = doc'.meta.updated_at]]_vars

\* dumps has refreshed updated_at of a loaded asset of one annotation and
\* the sidecar still holds the text that was loaded
C17_Witness ==
    /\ has_asset
    /\ last.op = "dumps"
    /\ last.update_timestamp
    /\ path = P("a", "meta")
    /\ Len(doc.annotations) = 1
    /\ doc.meta.updated_at = utc_now(1)
    /\ doc.meta.created_at = utc_now(0)
    /\ storage[path] = OneText
    /\ last.text # storage[path]

\* C19: save(q) with a location q writes the encoding of the document to q
\* itself, not to q's sidecar, leaves every other file as it was and leaves
\* the bound path as it was; the save() that follows writes to the bound
\* path, or raises the no-target error when there is none.
C19_SaveExplicit ==
    [][/\ (last'.op = "save" /\ truthy(last'.arg)) =>
             /\ last'.error = ""
             /\ last'.target = last'.arg
             /\ storage' = [storage EXCEPT ![last'.arg] = model_dump_json(doc', 2)]
             /\ path' = path
       /\ (/\ last.op = "save" /\ truthy(last.arg)
           /\ last'.op = "save" /\ ~truthy(last'.arg)) =>
             IF path = NoPath
             THEN /\ last'.error = "ValueError: no target path"
                  /\ storage' = storage
             ELSE /\ last'.error = ""
                  /\ last'.target = path
                  /\ storage' = [storage EXCEPT ![path] = model_dump_json(doc', 2)]]_vars

\* an asset bound to a.meta was saved to b.png and then saved with no
\* argument: b.png and a.meta hold texts, b.meta does not exist
C19_Witness ==
    /\ has_asset
    /\ path = P("a", "meta")
    /\ last.op = "save"
    /\ last.arg = NoPath
    /\ last.target = P("a", "meta")
    /\ storage[P("b", "png")].kind = "json"
    /\ storage[P("b", "png")].body.annotations = storage[path].body.annotations
    /\ storage[path] = model_dump_json(doc, 2)
    /\ storage[P("b", "meta")] = Absent

(***************************************************************************)
(* An asset of image a through its life: created or loaded, edited, saved  *)
(* and dumped while the clock runs, and loaded again.                      *)
(***************************************************************************)
PersistAnnotations ==
    {Annotation("u2", "n1", PointAttributes),
     Annotation("u3", "n2", CustomAttributes)}
PersistNames == {"n1", "n2"}

InitPersist == Init /\ storage[P("a", "meta")] \in {Absent, OneText}

NextCreated ==
    \/ \E t1 \in Ticks, t2 \in Ticks :
          Create(P("a", "png"), 1920, 1080, t1, t2) /\ UNCHANGED <<nops, asset2>>
    \/ \E a \in PersistAnnotations, o \in BOOLEAN :
          AddAnnotation(a, o) /\ UNCHANGED <<nops, asset2>>
    \/ \E n \in PersistNames : RemoveAnnotation(n) /\ UNCHANGED <<nops, asset2>>
    \/ \E t \in Ticks : Save(NoPath, t) /\ UNCHANGED <<nops, asset2>>
    \/ \E u \in BOOLEAN, t \in Ticks : Dumps(u, 2, t) /\ UNCHANGED <<nops, asset2>>

NextPersist ==
    \/ NextCreated
    \/ Load(P("a", "png")) /\ UNCHANGED <<nops, asset2>>

SpecPersist == InitPersist /\ [][NextPersist]_vars

\* no sidecar to begin with, and no load: every asset comes from create
InitCreated == Init /\ storage[P("a", "meta")] = Absent

SpecCreated == InitCreated /\ [][NextCreated]_vars

\* C18: for an asset of image a (from create or load), a load of image a
\* right after a successful save() succeeds and returns an asset of the
\* same document (type, file, meta with the refreshed updated_at, the
\* annotations in their order), bound to the same sidecar, which is the
\* sidecar of image a; and after every successful save() the sidecar
\* decodes to the asset's document.
C18_SaveLoadRoundTrip ==
    /\ [][(/\ last.op = "save" /\ last.arg = NoPath /\ last.error = ""
           /\ last'.op = "load")
          => (/\ last'.error = ""
              /\ has_asset'
              /\ doc' = doc
              /\ path' = path
              /\ path' = with_suffix_meta(last'.arg)
              /\ name_map' = init_name_map(doc.annotations))]_vars
    /\ []((last.op = "save" /\ last.arg = NoPath /\ last.error = "") =>
            LET r == load(storage, P("a", "png")) IN
            /\ r.error = ""
            /\ r.asset = ImageAsset(doc, path))

\* a loaded asset got a second annotation, was saved when the clock read 2
\* and has been loaded again
C18_Witness ==
    /\ has_asset
    /\ last.op = "load"
    /\ last.error = ""
    /\ path = P("a", "meta")
    /\ storage[path] = model_dump_json(doc, 2)
    /\ doc.meta.updated_at = utc_now(2)
    /\ Len(doc.annotations) = 2
    /\ doc.annotations[1] = Annotation("u1", "n1", BoxAttributes)
    /\ doc.annotations[2] = Annotation("u3", "n2", CustomAttributes)

\* C20: for an asset from create, with a clock that never runs backwards,
\* created_at <= updated_at in every state; after create no call changes
\* created_at; updated_at never decreases and changes only in save and in
\* dumps(update_timestamp=True), never in add_annotation or
\* remove_annotation.
C20_TimestampOrder ==
    /\ [](has_asset =>
            /\ doc.meta.created_at.tz = "UTC"
            /\ doc.meta.updated_at.tz = "UTC"
            /\ doc.meta.created_at.t <= doc.meta.updated_at.t)
    /\ [][(has_asset /\ last'.op # "create") =>
            /\ doc'.meta.created_at = doc.meta.created_at
            /\ doc'.meta.updated_at.t >= doc.meta.updated_at.t
            /\ doc'.meta.updated_at # doc.meta.updated_at =>
                  \/ last'.op = "save"
                  \/ last'.op = "dumps" /\ last'.update_timestamp
            /\ last'.op \in {"add_annotation", "remove_annotation"} =>
                  doc'.meta = doc.meta]_vars

\* created at 1, saved or dumped at 2, and an annotation added after that
C20_Witness ==
    /\ has_asset
    /\ last.op = "add_annotation"
    /\ last.error = ""
    /\ doc.meta.created_at = utc_now(1)
    /\ doc.meta.updated_at = utc_now(2)
    /\ Len(doc.annotations) = 1

====
